---- MODULE Spec2Model ----
(***************************************************************************)
(* A model of cleanup_prs: the batch engine (BatchProcessor), the way      *)
(* filter_old_pr_releases builds and runs it, and the retry wrapper        *)
(* (with_retry).                                                           *)
(*                                                                         *)
(* Python values are modelled as follows.  An Optional value is a sequence *)
(* of length at most one: None is <<>> and a value v is <<v>>.  Keyword    *)
(* arguments of a call are a record whose domain is the set of keywords    *)
(* the caller wrote, so an omitted keyword and a keyword given as None are *)
(* different calls.  An exception is the name of its class, "" is no       *)
(* exception.                                                              *)
(***************************************************************************)
EXTENDS Integers, Sequences, FiniteSets, TLC

\* ------------------------------------------------------------------ bounds

\* Longest input sequence handed to process_batches.
MaxItems == 3
\* Largest batch size a caller writes explicitly.
MaxBatchSize == 2
\* Largest worker count a caller writes explicitly.
MaxWorkers == 2

\* ------------------------------------------------------- program constants

DEFAULT_BATCH_SIZE == 100
DEFAULT_MAX_WORKERS == 4

\* ----------------------------------------------------------- value helpers

None == <<>>

Some(v) == <<v>>

Range(s) == {s[k] : k \in DOMAIN s}

RECURSIVE Flatten(_)
Flatten(ss) == IF ss = <<>> THEN <<>> ELSE Head(ss) \o Flatten(Tail(ss))

RECURSIVE SeqSum(_)
SeqSum(s) == IF s = <<>> THEN 0 ELSE Head(s) + SeqSum(Tail(s))

\* A dict with no keys.
EmptyDict == [k \in {} |-> 0]

\* dict.update: the keys of both, the values of the second where it has the key.
DictUpdate(a, b) ==
    [k \in DOMAIN a \cup DOMAIN b |-> IF k \in DOMAIN b THEN b[k] ELSE a[k]]

\* The multiset of the elements of a sequence: element |-> multiplicity.
BagOfSeq(s) == [v \in Range(s) |-> Cardinality({k \in DOMAIN s : s[k] = v})]

CeilDiv(a, b) == (a + b - 1) \div b

Min(a, b) == IF a <= b THEN a ELSE b

\* -------------------------------------------------------------------- items

\* What the caller's functions do with an item:
\*   "ok"    the filter accepts it, transform returns a value
\*   "none"  the filter accepts it, transform returns None
\*   "fail"  the filter accepts it, transform raises
\*   "rej"   the filter rejects it (transform would return a value)
ItemKinds == {"ok", "none", "fail", "rej"}

\* An item is its position in the input and its kind; positions make the
\* items of one input pairwise distinct.
MakeItems(kinds) == [p \in DOMAIN kinds |-> [id |-> p, kind |-> kinds[p]]]

KindSeqs(K) == UNION {[1..n -> K] : n \in 0..MaxItems}

\* filter_func(item)
FilterAccepts(item) == item.kind # "rej"

\* An item on which the filter does not return: filter_func(item) raises.
BadKind == "bad"

\* filter_func(item) raises.
FilterRaises(hasFilter, item) == hasFilter /\ item.kind = BadKind

\* process_func(item): an outcome, returned (with an Optional value) or raised.
Transform(item) ==
    CASE item.kind = "fail" -> [raised |-> TRUE, value |-> None]
      [] item.kind = "none" -> [raised |-> FALSE, value |-> None]
      [] OTHER -> [raised |-> FALSE, value |-> Some(item.id)]

\* ------------------------------------------------------------ construction

\* Keyword-argument records over the keywords batch_size and max_workers with
\* values drawn from the given sets.
KwArgs(bsVals, mwVals) ==
    {kw \in UNION {[D -> bsVals \cup mwVals] : D \in SUBSET {"batch_size", "max_workers"}} :
        /\ ("batch_size" \in DOMAIN kw => kw.batch_size \in bsVals)
        /\ ("max_workers" \in DOMAIN kw => kw.max_workers \in mwVals)}

\* BatchProcessor.__init__: an omitted keyword takes the module default, a
\* keyword that is given is stored as it is.
BatchProcessorInit(kw) ==
    [batch_size |-> IF "batch_size" \in DOMAIN kw
                    THEN kw.batch_size ELSE Some(DEFAULT_BATCH_SIZE),
     max_workers |-> IF "max_workers" \in DOMAIN kw
                     THEN kw.max_workers ELSE Some(DEFAULT_MAX_WORKERS)]

\* ------------------------------------------------------------------- state

VARIABLES
    caller,            \* who built the processor: "direct" or "filter_old_pr_releases"
    call_kw,           \* the keyword arguments the caller wrote
    items,             \* process_batches: items
    batch_size,        \* self.batch_size
    max_workers,       \* self.max_workers
    has_filter,        \* filter_func is not None
    has_callback,      \* self.progress_callback is not None
    pc,                \* the calling thread: "start", "loop", "batch", "done", "raised"
    raised,            \* the exception that left process_batches, "" if none
    i,                 \* the loop counter of enumerate(items, 1), 0 before the loop
    current_batch,     \* current_batch
    processed_items,   \* processed_items
    results,           \* _process_batch: results
    futures,           \* _process_batch: one state per submitted item
    dispatched,        \* history: the batches handed to _process_batch
    progress_calls,    \* history: the arguments of each progress_callback call
    log,               \* history: the log entries, <<event, number>>
    transform_calls,   \* history: the ids of the items transform was invoked on
    in_flight,         \* the ids of the items whose transform invocation is running
    filter_calls,      \* history: the ids of the items filter_func was invoked on
    fn_pc,             \* filter_old_pr_releases: "running", "returned", "raised";
                       \* "none" when the processor is used directly
    r_max,             \* with_retry: max_retries
    r_pc,              \* with_retry.wrapper: "loop", "sleep", "returned", "raised";
                       \* "none" when no wrapped call is made
    r_attempt,         \* wrapper: attempt, the loop variable of range(max_retries)
    r_last_exception,  \* wrapper: last_exception
    r_result,          \* the value the wrapper returned
    r_raised,          \* the exception the wrapper raised
    r_calls,           \* history: the outcome of each invocation of func
    r_sleeps,          \* history: the attempt after which each time.sleep(delay) ran
    operations,        \* PerformanceMonitor.operations
    current_operation, \* PerformanceMonitor._current_operation, an Optional record
    clock,             \* datetime.now(), in seconds
    created,           \* history: the number of OperationMetrics objects created
    mon_calls,         \* history: the calls made on the monitor, <<method, was open>>
    mon_log,           \* history: the monitor's log entries, <<level, message>>
    summary            \* what the last get_operation_summary call returned

\* The state of one wrapped call.
retry == <<r_max, r_pc, r_attempt, r_last_exception, r_result, r_raised, r_calls, r_sleeps>>

\* The state of the batch engine.
engine == <<caller, call_kw, items, batch_size, max_workers, has_filter, has_callback,
            pc, raised, i, current_batch, processed_items, results, futures,
            dispatched, progress_calls, log, transform_calls, in_flight, filter_calls>>

\* The state of one PerformanceMonitor and of its observer.
monitor == <<operations, current_operation, clock, created, mon_calls, mon_log, summary>>

\* filter_release_by_age and process_release, called on their own: the
\* arguments, and the outcome of each function once it has been applied.
VARIABLES rel_release, rel_prefix, rel_cutoff, rel_filter, rel_process, rel_log

releasefns == <<rel_release, rel_prefix, rel_cutoff, rel_filter, rel_process, rel_log>>

\* cli.main: whether the arguments are valid, the position in main, the
\* attempts made of the current wrapped call and the exception of the last
\* one, the releases listed, the releases still to delete, the exit status,
\* and the calls made so far with their outcomes and the sleeps taken.
VARIABLES m_valid, m_pc, m_attempt, m_last, m_releases, m_old, m_exit, m_events, m_sleeps

\* cli.main from line 287 on: the --dry-run and --force arguments, the names
\* filter_old_pr_releases returned, the answers typed at the prompt and the
\* attempts of delete_helm_release made.
VARIABLES m_dry_run, m_force, m_targets, m_answers, m_deletes

deletion == <<m_dry_run, m_force, m_targets, m_answers, m_deletes>>

mainv == <<m_valid, m_pc, m_attempt, m_last, m_releases, m_old, m_exit, m_events, m_sleeps,
           deletion>>

vars == <<engine, fn_pc, retry, monitor, releasefns, mainv>>

\* What the batch engine never writes: the state of its callers and of the
\* other components.
outside == <<fn_pc, retry, monitor, releasefns, mainv>>

\* No wrapped call is made.
RetryUnused ==
    /\ r_max = 0
    /\ r_pc = "none"
    /\ r_attempt = 0
    /\ r_last_exception = <<>>
    /\ r_result = <<>>
    /\ r_raised = <<>>
    /\ r_calls = <<>>
    /\ r_sleeps = <<>>

\* main is not run.
MainUnused ==
    /\ m_valid = TRUE
    /\ m_pc = "none"
    /\ m_attempt = 0
    /\ m_last = <<>>
    /\ m_releases = <<>>
    /\ m_old = <<>>
    /\ m_exit = <<>>
    /\ m_events = <<>>
    /\ m_sleeps = 0
    /\ m_dry_run = FALSE
    /\ m_force = FALSE
    /\ m_targets = <<>>
    /\ m_answers = <<>>
    /\ m_deletes = <<>>

\* Neither release function is called on its own.
ReleaseFnsUnused ==
    /\ rel_release = <<>>
    /\ rel_prefix = <<>>
    /\ rel_cutoff = <<>>
    /\ rel_filter = <<>>
    /\ rel_process = <<>>
    /\ rel_log = <<>>

\* No call is made on a monitor.
MonitorUnused ==
    /\ operations = <<>>
    /\ current_operation = <<>>
    /\ clock = 0
    /\ created = 0
    /\ mon_calls = <<>>
    /\ mon_log = <<>>
    /\ summary = EmptyDict

config == <<caller, call_kw, items, batch_size, max_workers, has_filter, has_callback>>

\* The state in which process_batches is about to be called on a processor:
\* nothing has run yet.
EngineIdle ==
    /\ pc = "start"
    /\ raised = ""
    /\ i = 0
    /\ current_batch = <<>>
    /\ processed_items = <<>>
    /\ results = <<>>
    /\ futures = <<>>
    /\ dispatched = <<>>
    /\ progress_calls = <<>>
    /\ log = <<>>
    /\ transform_calls = <<>>
    /\ in_flight = {}
    /\ filter_calls = <<>>

\* A processor built directly, BatchProcessor(**kw, progress_callback=...),
\* with positive integers for the keywords that are given.
Init ==
    /\ caller = "direct"
    /\ call_kw \in KwArgs({Some(n) : n \in 1..MaxBatchSize}, {Some(n) : n \in 1..MaxWorkers})
    /\ batch_size = BatchProcessorInit(call_kw).batch_size
    /\ max_workers = BatchProcessorInit(call_kw).max_workers
    /\ has_filter \in BOOLEAN
    /\ has_callback \in BOOLEAN
    /\ items \in {MakeItems(ks) :
                    ks \in KindSeqs(IF has_filter THEN ItemKinds ELSE ItemKinds \ {"rej"})}
    /\ fn_pc = "none"
    /\ EngineIdle
    /\ RetryUnused
    /\ MonitorUnused
    /\ ReleaseFnsUnused
    /\ MainUnused

\* ------------------------------------------------------- process_batches

total_items == Len(items)

\* Line 70: the filter returns a false value and the item is skipped.
Skips(hasFilter, item) == hasFilter /\ ~FilterRaises(hasFilter, item) /\ ~FilterAccepts(item)

\* A batch is dispatched only once it is larger than the batch size.
MutShouldDispatchLate(batch, bs, idx, total) == Len(batch) > bs \/ idx = total

\* Line 75, for an integer batch size.
ShouldDispatch(batch, bs, idx, total) == Len(batch) >= bs \/ idx = total

\* Lines 56-67: the locals are set and the start entry is logged.
Start ==
    /\ pc = "start"
    /\ pc' = "loop"
    /\ log' = Append(log, <<"start", total_items>>)
    /\ UNCHANGED <<config, outside, raised, i, current_batch, processed_items, results, futures,
                   dispatched, progress_calls, transform_calls, in_flight, filter_calls>>

\* Lines 69-71: the next item is rejected by the filter.
LoopSkip ==
    /\ pc = "loop"
    /\ i < total_items
    /\ Skips(has_filter, items[i + 1])
    /\ i' = i + 1
    /\ filter_calls' = Append(filter_calls, items[i + 1].id)
    /\ UNCHANGED <<config, outside, pc, raised, current_batch, processed_items, results, futures,
                   dispatched, progress_calls, log, transform_calls, in_flight>>

\* Lines 69-75: the next item joins the batch, which is not dispatched yet.
LoopAppend ==
    /\ pc = "loop"
    /\ i < total_items
    /\ ~FilterRaises(has_filter, items[i + 1])
    /\ ~Skips(has_filter, items[i + 1])
    /\ batch_size # None
    /\ ~ShouldDispatch(Append(current_batch, items[i + 1]), batch_size[1], i + 1, total_items)
    /\ i' = i + 1
    /\ current_batch' = Append(current_batch, items[i + 1])
    /\ filter_calls' = IF has_filter THEN Append(filter_calls, items[i + 1].id)
                       ELSE filter_calls
    /\ UNCHANGED <<config, outside, pc, raised, processed_items, results, futures,
                   dispatched, progress_calls, log, transform_calls, in_flight>>

\* Lines 69-76 and 107-109: the next item joins the batch and the batch is
\* handed to _process_batch, which submits every item of it to a new pool.
LoopDispatch ==
    /\ pc = "loop"
    /\ i < total_items
    /\ ~FilterRaises(has_filter, items[i + 1])
    /\ ~Skips(has_filter, items[i + 1])
    /\ batch_size # None
    /\ ShouldDispatch(Append(current_batch, items[i + 1]), batch_size[1], i + 1, total_items)
    /\ i' = i + 1
    /\ current_batch' = Append(current_batch, items[i + 1])
    /\ filter_calls' = IF has_filter THEN Append(filter_calls, items[i + 1].id)
                       ELSE filter_calls
    /\ dispatched' = Append(dispatched, current_batch')
    /\ results' = <<>>
    /\ futures' = [k \in DOMAIN current_batch' |-> "pending"]
    /\ pc' = "batch"
    /\ UNCHANGED <<config, outside, raised, processed_items, progress_calls, log,
                   transform_calls, in_flight>>

\* ------------------------------------------------------- _process_batch

\* max_workers is not handed to the executor, which takes its default.
MutPoolSizeLibraryDefault(mw) == 5

\* The executor is given no worker at all.
MutPoolSizeNone(mw) == 0

\* ThreadPoolExecutor(max_workers=...): the number of worker threads.  None
\* asks for the library default, min(32, cpu_count + 4), which is at least 5.
PoolSize(mw) == IF mw = None THEN 5 ELSE mw[1]

InFlight == Cardinality({k \in DOMAIN futures : futures[k] = "running"})

\* A free worker takes the oldest queued item and invokes process_func on it.
WorkerStart ==
    /\ pc = "batch"
    /\ InFlight < PoolSize(max_workers)
    /\ \E k \in DOMAIN futures :
        /\ futures[k] = "pending"
        /\ \A j \in 1..(k - 1) : futures[j] # "pending"
        /\ futures' = [futures EXCEPT ![k] = "running"]
        /\ transform_calls' = Append(transform_calls, current_batch[k].id)
        /\ in_flight' = in_flight \cup {current_batch[k].id}
    /\ UNCHANGED <<config, outside, pc, raised, i, current_batch, processed_items, results,
                   dispatched, progress_calls, log, filter_calls>>

\* The worker appends its own result to the shared list when process_func ends.
MutWorkerFinishAppends ==
    /\ pc = "batch"
    /\ \E k \in DOMAIN futures :
        /\ futures[k] = "running"
        /\ futures' = [futures EXCEPT ![k] = "finished"]
        /\ in_flight' = in_flight \ {current_batch[k].id}
        /\ results' = LET out == Transform(current_batch[k])
                       IN IF ~out.raised /\ out.value # None
                          THEN Append(results, out.value[1]) ELSE results
    /\ UNCHANGED <<config, outside, pc, raised, i, current_batch, processed_items,
                   dispatched, progress_calls, log, transform_calls, filter_calls>>

\* process_func returns or raises in its worker: the future is completed.
WorkerFinish ==
    /\ pc = "batch"
    /\ \E k \in DOMAIN futures :
        /\ futures[k] = "running"
        /\ futures' = [futures EXCEPT ![k] = "finished"]
        /\ in_flight' = in_flight \ {current_batch[k].id}
    /\ UNCHANGED <<config, outside, pc, raised, i, current_batch, processed_items, results,
                   dispatched, progress_calls, log, transform_calls, filter_calls>>

\* The exception of a failed future is not caught and leaves _process_batch.
MutCollectNoExcept(res, item) ==
    LET out == Transform(item) IN
    [results |-> IF ~out.raised /\ out.value # None
                 THEN Append(res, out.value[1]) ELSE res,
     logged |-> <<>>,
     propagates |-> out.raised]

\* Lines 111-123, what the calling thread does with one completed future:
\* future.result() returns process_func's value or re-raises its exception;
\* "except Exception" catches it and logs the item, so nothing propagates.
Collect(res, item) ==
    LET out == Transform(item) IN
    [results |-> IF ~out.raised /\ out.value # None
                 THEN Append(res, out.value[1]) ELSE res,
     logged |-> IF out.raised THEN <<<<"error", item.id>>>> ELSE <<>>,
     propagates |-> FALSE]

\* Lines 110-123: as_completed yields a completed future and the calling
\* thread takes its result.
CollectResult ==
    /\ pc = "batch"
    /\ \E k \in DOMAIN futures :
        LET c == Collect(results, current_batch[k]) IN
        /\ futures[k] = "finished"
        /\ futures' = [futures EXCEPT ![k] = "collected"]
        /\ results' = c.results
        /\ log' = log \o c.logged
        /\ pc' = IF c.propagates THEN "raised" ELSE pc
        /\ raised' = IF c.propagates THEN "Exception" ELSE raised
    /\ UNCHANGED <<config, outside, i, current_batch, processed_items,
                   dispatched, progress_calls, transform_calls, in_flight, filter_calls>>

\* processed_items is replaced by the batch's results instead of extended.
MutExtendAssigns(processed, batchResults) == batchResults

\* Line 77: processed_items.extend(batch_results).
Extend(processed, batchResults) == processed \o batchResults

\* The loop counter starts at 0, enumerate(items), instead of 1.
MutCallbackArgsFromZero(idx, total) == <<idx - 1, total>>

\* Line 81: the arguments of the progress callback.
CallbackArgs(idx, total) == <<idx, total>>

\* The loop over the futures ends with the first result taken.
MutDrainedFirstCollected(fs) == \E k \in DOMAIN fs : fs[k] = "collected"

\* Lines 110 and 108: as_completed has yielded every future of the batch, and
\* leaving the with block shuts the pool down, waiting for its workers.
Drained(fs) == \A k \in DOMAIN fs : fs[k] = "collected"

\* Lines 124 and 77-81: every future was taken, the pool is shut down, the
\* batch's results are appended and the progress callback is invoked.
BatchReturn ==
    /\ pc = "batch"
    /\ Drained(futures)
    /\ processed_items' = Extend(processed_items, results)
    /\ current_batch' = <<>>
    /\ results' = <<>>
    /\ futures' = <<>>
    /\ progress_calls' = IF has_callback
                         THEN Append(progress_calls, CallbackArgs(i, total_items))
                         ELSE progress_calls
    /\ pc' = "loop"
    /\ UNCHANGED <<config, outside, raised, i, dispatched, log, transform_calls, in_flight,
                   filter_calls>>

\* The progress callback is invoked once more when the loop ends.
MutFinishReportsProgress ==
    /\ pc = "loop"
    /\ i = total_items
    /\ log' = Append(log, <<"completed", Len(processed_items)>>)
    /\ progress_calls' = IF has_callback
                         THEN Append(progress_calls, CallbackArgs(i, total_items))
                         ELSE progress_calls
    /\ pc' = "done"
    /\ UNCHANGED <<config, outside, raised, i, current_batch, processed_items, results, futures,
                   dispatched, transform_calls, in_flight, filter_calls>>

\* Lines 83-91: the input is exhausted; the completion entry is logged and
\* processed_items is returned.
Finish ==
    /\ pc = "loop"
    /\ i = total_items
    /\ log' = Append(log, <<"completed", Len(processed_items)>>)
    /\ pc' = "done"
    /\ UNCHANGED <<config, outside, raised, i, current_batch, processed_items, results, futures,
                   dispatched, progress_calls, transform_calls, in_flight, filter_calls>>

Next ==
    \/ Start
    \/ LoopSkip
    \/ LoopAppend
    \/ LoopDispatch
    \/ WorkerStart
    \/ WorkerFinish
    \/ CollectResult
    \/ BatchReturn
    \/ Finish

Spec == Init /\ [][Next]_vars

\* The calling thread and the worker threads are scheduled, and every filter
\* and transform invocation that has started ends: a step that can be taken
\* is taken.
SpecLive == Spec /\ WF_vars(Next)

\* ------------------------------------------- a filter that raises on an item

\* A processor built directly and called with a filter that raises on the
\* items of kind "bad".
InitFilterRaises ==
    /\ caller = "direct"
    /\ call_kw \in KwArgs({Some(n) : n \in 1..MaxBatchSize}, {Some(n) : n \in 1..MaxWorkers})
    /\ batch_size = BatchProcessorInit(call_kw).batch_size
    /\ max_workers = BatchProcessorInit(call_kw).max_workers
    /\ has_filter = TRUE
    /\ has_callback \in BOOLEAN
    /\ items \in {MakeItems(ks) : ks \in KindSeqs(ItemKinds \cup {BadKind})}
    /\ fn_pc = "none"
    /\ EngineIdle
    /\ RetryUnused
    /\ MonitorUnused
    /\ ReleaseFnsUnused
    /\ MainUnused

\* Line 70: filter_func(item) raises; the call is in no try block, so the
\* exception leaves the loop and process_batches.
LoopFilterRaises ==
    /\ pc = "loop"
    /\ i < total_items
    /\ FilterRaises(has_filter, items[i + 1])
    /\ i' = i + 1
    /\ filter_calls' = Append(filter_calls, items[i + 1].id)
    /\ pc' = "raised"
    /\ raised' = "Exception"
    /\ UNCHANGED <<config, outside, current_batch, processed_items, results, futures,
                   dispatched, progress_calls, log, transform_calls, in_flight>>

NextFilterRaises ==
    \/ Next
    \/ LoopFilterRaises

SpecFilterRaises == InitFilterRaises /\ [][NextFilterRaises]_vars

\* --------------------------------- filter_old_pr_releases, what it is given

\* What filter_release_by_age and process_release do with a release: a
\* release the filter accepts has a non-empty name, which process_release
\* returns ("ok"); any other release is rejected by the filter ("rej").
ReleaseKinds == {"ok", "rej"}

\* cli.main: filter_old_pr_releases(releases, args.prefix, args.days), no
\* batch_size and no max_workers keyword.
CliCallKw == [k \in {} |-> None]

\* helm.py lines 103-104 and 146-149: batch_size and max_workers default to
\* None and both are always passed on to BatchProcessor as keywords.
FilterOldPrReleasesKw(kw) ==
    [batch_size |-> IF "batch_size" \in DOMAIN kw THEN kw.batch_size ELSE None,
     max_workers |-> IF "max_workers" \in DOMAIN kw THEN kw.max_workers ELSE None]

\* ------------------------------------------------------------- with_retry

\* Largest max_retries a decorated function is configured with.
MaxRetries == 4

\* What one invocation of the wrapped function can do: return one of these
\* values or raise an exception of one of these classes.
ReturnValues == {"v1", "v2"}

ExceptionClasses == {"E1", "E2"}

\* The batch engine takes no part in a wrapped call.
EngineUnused ==
    /\ caller = "none"
    /\ call_kw = CliCallKw
    /\ items = <<>>
    /\ batch_size = None
    /\ max_workers = None
    /\ has_filter = FALSE
    /\ has_callback = FALSE
    /\ fn_pc = "none"
    /\ EngineIdle

\* The wrapper of a function decorated with with_retry(max_retries, delay) is
\* called: line 72 has run and the loop of line 73 is about to start.
InitRetry ==
    /\ r_max \in -1..MaxRetries
    /\ r_pc = "loop"
    /\ r_attempt = 0
    /\ r_last_exception = None
    /\ r_result = None
    /\ r_raised = None
    /\ r_calls = <<>>
    /\ r_sleeps = <<>>
    /\ EngineUnused
    /\ MonitorUnused
    /\ ReleaseFnsUnused
    /\ MainUnused

\* range(max_retries) yields one attempt more than the configured number.
MutHasAttemptOneMore(attempt, maxRetries) == attempt <= maxRetries

\* Line 73: range(max_retries) yields this attempt.
HasAttempt(attempt, maxRetries) == attempt < maxRetries

\* The delay is waited after every failed attempt, the last one too.
MutSleepsAfterEvery(attempt, maxRetries) == attempt < maxRetries

\* Line 78: the delay is waited after this failed attempt.
SleepsAfter(attempt, maxRetries) == attempt < maxRetries - 1

\* The first exception is kept and later ones are dropped.
MutRememberFirst(last, exc) == IF last = None THEN Some(exc) ELSE last

\* Line 77: last_exception = e.
Remember(last, exc) == Some(exc)

\* Lines 73-75: func is invoked and returns; the wrapper returns its value.
\* A value is identified by the invocation that returned it.
AttemptReturns ==
    /\ r_pc = "loop"
    /\ HasAttempt(r_attempt, r_max)
    /\ \E v \in ReturnValues :
        /\ r_calls' = Append(r_calls, [ok |-> TRUE, what |-> v])
        /\ r_result' = Some(<<Len(r_calls) + 1, v>>)
    /\ r_pc' = "returned"
    /\ UNCHANGED <<engine, fn_pc, monitor, releasefns, mainv,
                   r_max, r_attempt, r_last_exception, r_raised, r_sleeps>>

\* Lines 73-78: func is invoked and raises; the exception is kept and the
\* wrapper goes on to sleep or to the next turn of the loop.  An exception is
\* identified by the invocation that raised it.
AttemptRaises ==
    /\ r_pc = "loop"
    /\ HasAttempt(r_attempt, r_max)
    /\ \E e \in ExceptionClasses :
        /\ r_calls' = Append(r_calls, [ok |-> FALSE, what |-> e])
        /\ r_last_exception' = Remember(r_last_exception, <<Len(r_calls) + 1, e>>)
    /\ IF SleepsAfter(r_attempt, r_max)
       THEN r_pc' = "sleep" /\ r_attempt' = r_attempt
       ELSE r_pc' = "loop" /\ r_attempt' = r_attempt + 1
    /\ UNCHANGED <<engine, fn_pc, monitor, releasefns, mainv,
                   r_max, r_result, r_raised, r_sleeps>>

\* Line 79: time.sleep(delay) returns and the loop takes its next turn.
SleepReturns ==
    /\ r_pc = "sleep"
    /\ r_sleeps' = Append(r_sleeps, r_attempt)
    /\ r_attempt' = r_attempt + 1
    /\ r_pc' = "loop"
    /\ UNCHANGED <<engine, fn_pc, monitor, releasefns, mainv,
                   r_max, r_last_exception, r_result, r_raised, r_calls>>

\* Line 80: the loop is over and last_exception is raised; raising None is a
\* TypeError of the raise statement itself.
RaiseLast ==
    /\ r_pc = "loop"
    /\ ~HasAttempt(r_attempt, r_max)
    /\ r_raised' = IF r_last_exception = None
                   THEN Some(<<0, "TypeError">>)
                   ELSE r_last_exception
    /\ r_pc' = "raised"
    /\ UNCHANGED <<engine, fn_pc, monitor, releasefns, mainv,
                   r_max, r_attempt, r_last_exception, r_result, r_calls,
                   r_sleeps>>

NextRetry ==
    \/ AttemptReturns
    \/ AttemptRaises
    \/ SleepReturns
    \/ RaiseLast

SpecRetry == InitRetry /\ [][NextRetry]_vars

\* ----------------------------------------------------- PerformanceMonitor

\* Largest number of calls made on one monitor.
MaxCalls == 5
\* Longest time, in seconds, between the start of a call and datetime.now().
MaxElapsed == 2

\* The arguments of the start_operation calls that are made.
StartChoices ==
    {[operation |-> "a", details |-> EmptyDict],
     [operation |-> "b", details |-> [count |-> 0]]}

\* The arguments of the end_operation calls that are made.
EndChoices ==
    {[success |-> TRUE, error |-> None, details |-> [count |-> 1]],
     [success |-> FALSE, error |-> Some("boom"), details |-> EmptyDict]}

\* PerformanceMonitor(): lines 34-37.
InitMonitor ==
    /\ operations = <<>>
    /\ current_operation = None
    /\ clock = 0
    /\ created = 0
    /\ mon_calls = <<>>
    /\ mon_log = <<>>
    /\ summary = EmptyDict
    /\ EngineUnused
    /\ RetryUnused
    /\ ReleaseFnsUnused
    /\ MainUnused

\* Lines 46-50: the OperationMetrics object start_operation creates; oid tells
\* the objects apart.
NewMetrics(oid, args, now) ==
    [oid |-> oid, operation |-> args.operation, start_time |-> now,
     end_time |-> None, duration |-> None, success |-> TRUE, error |-> None,
     details |-> args.details]

\* Lines 46-57: the slot and the log entries after start_operation.
StartOperation(cur, metrics) ==
    [current |-> Some(metrics), logged |-> <<<<"debug", "Starting operation">>>>,
     raised |-> None]

\* Lines 71-77: the open record, finalized.
Finalize(metrics, now, args) ==
    [metrics EXCEPT !.end_time = Some(now),
                    !.duration = Some(now - metrics.start_time),
                    !.success = args.success,
                    !.error = args.error,
                    !.details = DictUpdate(metrics.details, args.details)]

\* The slot is not cleared after the record is appended.
MutEndOperationKeepsSlot(ops, cur, now, args) ==
    IF cur = None
    THEN [operations |-> ops, current |-> cur,
          logged |-> <<<<"warning", "No operation in progress">>>>, raised |-> None]
    ELSE [operations |-> Append(ops, Finalize(cur[1], now, args)), current |-> cur,
          logged |-> <<<<"debug", "Completed operation">>>>, raised |-> None]

\* Without the check of lines 67-69, line 71 assigns to an attribute of None.
MutEndOperationNoGuard(ops, cur, now, args) ==
    IF cur = None
    THEN [operations |-> ops, current |-> cur, logged |-> <<>>,
          raised |-> Some("AttributeError")]
    ELSE [operations |-> Append(ops, Finalize(cur[1], now, args)), current |-> None,
          logged |-> <<<<"debug", "Completed operation">>>>, raised |-> None]

\* Lines 67-91: the log, the slot and the log entries after end_operation.
EndOperation(ops, cur, now, args) ==
    IF cur = None
    THEN [operations |-> ops, current |-> cur,
          logged |-> <<<<"warning", "No operation in progress">>>>, raised |-> None]
    ELSE [operations |-> Append(ops, Finalize(cur[1], now, args)), current |-> None,
          logged |-> <<<<"debug", "Completed operation">>>>, raised |-> None]

\* total_duration / len(self.operations), as the fraction it is.
Fraction(n, d) == [num |-> n, den |-> d]

\* The average is taken over the successful operations only.
MutGetOperationSummaryAvg(ops) ==
    IF ops = <<>> THEN EmptyDict
    ELSE LET total == SeqSum([k \in DOMAIN ops |-> ops[k].duration[1]])
             ok == Cardinality({k \in DOMAIN ops : ops[k].success})
         IN [total_operations |-> Len(ops),
             successful_operations |-> ok,
             failed_operations |-> Len(ops) - ok,
             total_duration |-> total,
             average_duration |-> Fraction(total, ok),
             operations |-> [k \in DOMAIN ops |->
                 [operation |-> ops[k].operation, duration |-> ops[k].duration,
                  success |-> ops[k].success, error |-> ops[k].error,
                  details |-> ops[k].details]]]

\* Lines 99-122: get_operation_summary.  "op.duration or 0" is the duration: a
\* finalized record has one, and a duration of 0 counts as 0 either way.
GetOperationSummary(ops) ==
    IF ops = <<>> THEN EmptyDict
    ELSE LET total == SeqSum([k \in DOMAIN ops |->
                                 IF ops[k].duration = None THEN 0 ELSE ops[k].duration[1]])
             ok == Cardinality({k \in DOMAIN ops : ops[k].success})
         IN [total_operations |-> Len(ops),
             successful_operations |-> ok,
             failed_operations |-> Len(ops) - ok,
             total_duration |-> total,
             average_duration |-> Fraction(total, Len(ops)),
             operations |-> [k \in DOMAIN ops |->
                 [operation |-> ops[k].operation, duration |-> ops[k].duration,
                  success |-> ops[k].success, error |-> ops[k].error,
                  details |-> ops[k].details]]]

\* A call as the history keeps it: the method, whether a record was open when
\* it was made, its arguments and the exception it raised.
MonCall(method, args, exc) ==
    [method |-> method, open |-> current_operation # None, args |-> args, raised |-> exc]

\* start_operation(operation, **details)
MonStart ==
    /\ Len(mon_calls) < MaxCalls
    /\ \E args \in StartChoices :
        LET r == StartOperation(current_operation, NewMetrics(created + 1, args, clock)) IN
        /\ current_operation' = r.current
        /\ mon_log' = mon_log \o r.logged
        /\ mon_calls' = Append(mon_calls, MonCall("start", args, r.raised))
    /\ created' = created + 1
    /\ UNCHANGED <<engine, fn_pc, retry, releasefns, mainv, operations, clock, summary>>

\* end_operation(success, error, **details), some time after the last call
MonEnd ==
    /\ Len(mon_calls) < MaxCalls
    /\ \E args \in EndChoices, d \in 1..MaxElapsed :
        LET r == EndOperation(operations, current_operation, clock + d, args) IN
        /\ clock' = clock + d
        /\ operations' = r.operations
        /\ current_operation' = r.current
        /\ mon_log' = mon_log \o r.logged
        /\ mon_calls' = Append(mon_calls, MonCall("end", args, r.raised))
    /\ UNCHANGED <<engine, fn_pc, retry, releasefns, mainv, created, summary>>

\* get_operation_summary()
MonSummary ==
    /\ Len(mon_calls) < MaxCalls
    /\ summary' = GetOperationSummary(operations)
    /\ mon_calls' = Append(mon_calls, MonCall("summary", EmptyDict, None))
    /\ UNCHANGED <<engine, fn_pc, retry, releasefns, mainv, operations, current_operation,
                   clock, created,
                   mon_log>>

NextMonitor ==
    \/ MonStart
    \/ MonEnd
    \/ MonSummary

SpecMonitor == InitMonitor /\ [][NextMonitor]_vars

\* ----------------------------------- filter_old_pr_releases, the whole call

\* helm.py lines 119-126: the arguments of the start_operation call.
FilterStartArgs(kw, total) ==
    [operation |-> "filter_old_pr_releases",
     details |-> [total_releases |-> total,
                  batch_size |-> FilterOldPrReleasesKw(kw).batch_size,
                  max_workers |-> FilterOldPrReleasesKw(kw).max_workers]]

\* helm.py lines 166-170: the arguments of the end_operation call.
FilterEndArgs(count, total) ==
    [success |-> TRUE, error |-> None, details |-> [count |-> count, total_releases |-> total]]

\* filter_old_pr_releases(releases, prefix, days_threshold, **kw) has opened
\* its operation on the global monitor, which holds no record yet, has built
\* its processor (lines 118-149) and is about to call process_batches with
\* the release filter and process_release.
InitHelm ==
    /\ caller = "filter_old_pr_releases"
    /\ call_kw \in KwArgs({Some(n) : n \in 1..MaxBatchSize}, {Some(n) : n \in 1..MaxWorkers})
    /\ batch_size = BatchProcessorInit(FilterOldPrReleasesKw(call_kw)).batch_size
    /\ max_workers = BatchProcessorInit(FilterOldPrReleasesKw(call_kw)).max_workers
    /\ has_filter = TRUE
    /\ has_callback = FALSE
    /\ items \in {MakeItems(ks) : ks \in KindSeqs(ReleaseKinds)}
    /\ fn_pc = "running"
    /\ EngineIdle
    /\ RetryUnused
    /\ operations = <<>>
    /\ current_operation =
           StartOperation(None, NewMetrics(1, FilterStartArgs(call_kw, Len(items)), 0)).current
    /\ clock = 0
    /\ created = 1
    /\ mon_calls = <<[method |-> "start", open |-> FALSE,
                      args |-> FilterStartArgs(call_kw, Len(items)), raised |-> None]>>
    /\ mon_log = StartOperation(None, NewMetrics(1, FilterStartArgs(call_kw, Len(items)), 0)).logged
    /\ summary = EmptyDict
    /\ ReleaseFnsUnused
    /\ MainUnused

\* batch_processor.py lines 69-75 with self.batch_size None: the item joins the
\* batch and the comparison len(current_batch) >= None raises TypeError.
LoopCompareRaises ==
    /\ pc = "loop"
    /\ i < total_items
    /\ ~Skips(has_filter, items[i + 1])
    /\ batch_size = None
    /\ i' = i + 1
    /\ current_batch' = Append(current_batch, items[i + 1])
    /\ filter_calls' = IF has_filter THEN Append(filter_calls, items[i + 1].id)
                       ELSE filter_calls
    /\ pc' = "raised"
    /\ raised' = "TypeError"
    /\ UNCHANGED <<config, outside, processed_items, results, futures,
                   dispatched, progress_calls, log, transform_calls, in_flight>>

\* helm.py lines 158-171: process_batches returned; the operation is ended on
\* the global monitor, some time after it was started, and the function
\* returns.
FilterReturn ==
    /\ fn_pc = "running"
    /\ pc = "done"
    /\ fn_pc' = "returned"
    /\ \E d \in 1..MaxElapsed :
        LET args == FilterEndArgs(Len(processed_items), Len(items))
            r == EndOperation(operations, current_operation, clock + d, args)
        IN /\ clock' = clock + d
           /\ operations' = r.operations
           /\ current_operation' = r.current
           /\ mon_log' = mon_log \o r.logged
           /\ mon_calls' = Append(mon_calls, MonCall("end", args, r.raised))
    /\ UNCHANGED <<engine, retry, releasefns, mainv, created, summary>>

\* helm.py lines 152-156: an exception of process_batches is not caught and
\* leaves filter_old_pr_releases; no line of it runs after the call.
FilterPropagate ==
    /\ fn_pc = "running"
    /\ pc = "raised"
    /\ fn_pc' = "raised"
    /\ UNCHANGED <<engine, retry, monitor, releasefns, mainv>>

NextHelm ==
    \/ Next
    \/ LoopCompareRaises
    \/ FilterReturn
    \/ FilterPropagate

SpecHelm == InitHelm /\ [][NextHelm]_vars

\* ------------------------------- filter_release_by_age and process_release

\* Longest name and prefix, in characters.
MaxStrLen == 2
\* Latest hour of the day a timestamp or the cutoff shows.
MaxHour == 3

Chars == {"p", "x"}
Strings == UNION {[1..n -> Chars] : n \in 0..MaxStrLen}

\* str.startswith
StartsWith(str, pre) == Len(pre) <= Len(str) /\ SubSeq(str, 1, Len(pre)) = pre

\* What dict.get gives for a key: nothing, a string, or a value of another
\* type that is truthy (a number other than 0).
Missing == [type |-> "missing", chars |-> <<>>, form |-> "", hour |-> 0, tz |-> None]
Number == [type |-> "int", chars |-> <<>>, form |-> "", hour |-> 0, tz |-> None]
NameStr(str) == [type |-> "str", chars |-> str, form |-> "", hour |-> 0, tz |-> None]

\* A string in the "updated" field: empty, not an ISO timestamp, or an ISO
\* timestamp showing an hour, without an offset or with one (in hours).
EmptyText == [type |-> "str", chars |-> <<>>, form |-> "empty", hour |-> 0, tz |-> None]
JunkText == [type |-> "str", chars |-> <<>>, form |-> "junk", hour |-> 0, tz |-> None]
IsoText(hour, tz) == [type |-> "str", chars |-> <<>>, form |-> "iso", hour |-> hour, tz |-> tz]

Offsets == {-1, 0, 1}
Names == {Missing, Number} \cup {NameStr(str) : str \in Strings}
Updateds ==
    {Missing, Number, EmptyText, JunkText}
        \cup {IsoText(h, tz) : h \in 0..MaxHour, tz \in {None} \cup {Some(o) : o \in Offsets}}

\* The releases: dicts with any name and timestamp, and one element of the
\* list that is not a dict.
NotADict == [dict |-> FALSE, name |-> Missing, updated |-> Missing]
Releases ==
    {[dict |-> TRUE, name |-> n, updated |-> u] : n \in Names, u \in Updateds}
        \cup {NotADict}

\* A datetime: the hour it shows and its tzinfo (None when naive).
DateTime(hour, tz) == [hour |-> hour, tzinfo |-> tz]

\* The cutoffs: aware datetimes, as helm.py lines 128-129 build them.
Cutoffs == {DateTime(h, Some(o)) : h \in 0..MaxHour, o \in {0, 1}}

\* The outcome of a call: the exception class raised, or the value returned.
Returns(v) == [raised |-> None, value |-> Some(v)]
Raises(cls) == [raised |-> Some(cls), value |-> None]

\* Python truth of a value dict.get gave.
Truthy(v) ==
    \/ v.type = "int"
    \/ v.type = "str" /\ (v.chars # <<>> \/ v.form \in {"junk", "iso"})

\* release.get(key): a value, or AttributeError when the release has no get.
Get(rel, key) ==
    IF ~rel.dict THEN Raises("AttributeError")
    ELSE Returns(IF key = "name" THEN rel.name ELSE rel.updated)

\* datetime.fromisoformat
FromIsoFormat(v) ==
    IF v.type # "str" THEN Raises("TypeError")
    ELSE IF v.form # "iso" THEN Raises("ValueError")
    ELSE Returns(DateTime(v.hour, v.tz))

\* Lines 152-155: replace(tzinfo=utc) on a naive datetime, astimezone(utc) on
\* an aware one.
ToUtc(dt) ==
    IF dt.tzinfo = None THEN DateTime(dt.hour, Some(0))
    ELSE DateTime(dt.hour - dt.tzinfo[1], Some(0))

\* The instant of an aware datetime, in hours.
Instant(dt) == dt.hour - dt.tzinfo[1]

\* The comparison also holds for equal instants.
MutEarlierOrEqual(a, b) == Instant(a) <= Instant(b)

\* Line 157: "<" on two aware datetimes compares their instants.
Earlier(a, b) == Instant(a) < Instant(b)

\* Lines 141-159.
FilterReleaseByAge(rel, pre, cutoff) ==
    LET n == Get(rel, "name")
        u == Get(rel, "updated")
    IN IF n.raised # None THEN n
       ELSE IF u.raised # None THEN u
       ELSE IF ~Truthy(n.value[1]) \/ ~Truthy(u.value[1]) THEN Returns(FALSE)
       ELSE IF n.value[1].type # "str" THEN Raises("AttributeError")
       ELSE IF ~StartsWith(n.value[1].chars, pre) THEN Returns(FALSE)
       ELSE LET parsed == FromIsoFormat(u.value[1]) IN
            IF parsed.raised # None THEN Returns(FALSE)
            ELSE Returns(Earlier(ToUtc(parsed.value[1]), cutoff))

\* The except clause of lines 177-185 is missing.
MutProcessReleaseNoExcept(rel) ==
    LET n == Get(rel, "name") IN
    IF n.raised # None THEN [raised |-> n.raised, value |-> None, logged |-> <<>>]
    ELSE IF ~Truthy(n.value[1]) THEN [raised |-> None, value |-> None, logged |-> <<>>]
    ELSE [raised |-> None, value |-> n.value, logged |-> <<>>]

\* Lines 172-185: the name, or None; value is the Optional returned.
ProcessRelease(rel) ==
    LET n == Get(rel, "name") IN
    IF n.raised # None
    THEN [raised |-> None, value |-> None,
          logged |-> <<<<"error", "Error processing release">>>>]
    ELSE IF ~Truthy(n.value[1]) THEN [raised |-> None, value |-> None, logged |-> <<>>]
    ELSE [raised |-> None, value |-> n.value, logged |-> <<>>]

InitReleaseFns ==
    /\ rel_release \in Releases
    /\ rel_prefix \in Strings
    /\ rel_cutoff \in Cutoffs
    /\ rel_filter = None
    /\ rel_process = None
    /\ rel_log = <<>>
    /\ EngineUnused
    /\ RetryUnused
    /\ MonitorUnused
    /\ MainUnused

\* filter_release_by_age(release, prefix, cutoff_time)
ApplyFilter ==
    /\ rel_filter = None
    /\ rel_filter' = Some(FilterReleaseByAge(rel_release, rel_prefix, rel_cutoff))
    /\ UNCHANGED <<engine, fn_pc, retry, monitor, mainv, rel_release, rel_prefix, rel_cutoff,
                   rel_process, rel_log>>

\* process_release(release)
ApplyProcess ==
    /\ rel_process = None
    /\ LET r == ProcessRelease(rel_release) IN
        /\ rel_process' = Some([raised |-> r.raised, value |-> r.value])
        /\ rel_log' = rel_log \o r.logged
    /\ UNCHANGED <<engine, fn_pc, retry, monitor, mainv, rel_release, rel_prefix, rel_cutoff,
                   rel_filter>>

NextReleaseFns ==
    \/ ApplyFilter
    \/ ApplyProcess

SpecReleaseFns == InitReleaseFns /\ [][NextReleaseFns]_vars

\* ------------------------------------------------- one whole call, as a function

\* Lines 69-78 run to the end of the input: the batches handed to
\* _process_batch, in order.
RECURSIVE LoopBatches(_, _, _, _, _, _)
LoopBatches(its, bs, hasFilter, idx, batch, acc) ==
    IF idx > Len(its) THEN acc
    ELSE IF Skips(hasFilter, its[idx]) THEN LoopBatches(its, bs, hasFilter, idx + 1, batch, acc)
    ELSE LET b == Append(batch, its[idx]) IN
         IF ShouldDispatch(b, bs, idx, Len(its))
         THEN LoopBatches(its, bs, hasFilter, idx + 1, <<>>, Append(acc, b))
         ELSE LoopBatches(its, bs, hasFilter, idx + 1, b, acc)

DispatchedBatches(its, bs, hasFilter) == LoopBatches(its, bs, hasFilter, 1, <<>>, <<>>)

\* Lines 110-124 with the futures taken in submission order.
RECURSIVE BatchResults(_, _)
BatchResults(batch, res) ==
    IF batch = <<>> THEN res
    ELSE BatchResults(Tail(batch), Collect(res, Head(batch)).results)

\* What process_batches returns when every batch completes in submission order.
RECURSIVE ExtendAll(_, _)
ExtendAll(batches, processed) ==
    IF batches = <<>> THEN processed
    ELSE ExtendAll(Tail(batches), Extend(processed, BatchResults(Head(batches), <<>>)))

ProcessBatchesResult(its, bs, hasFilter) ==
    ExtendAll(DispatchedBatches(its, bs, hasFilter), <<>>)

\* ---------------------------------------------------------------- cli.main

\* max_retries of the decorated set_kubectl_context, list_helm_releases and
\* delete_helm_release.
ExternalMaxRetries == 3

\* The functions of main that are wrapped by with_retry.
ExternalOps == {"set_kubectl_context", "list_helm_releases", "delete_helm_release"}

\* The exception classes one invocation of each can raise.
ExternalRaises(op) ==
    CASE op = "set_kubectl_context" ->
             {"ContextNotFoundError", "CleanupError", "FileNotFoundError"}
      [] op = "list_helm_releases" -> {"CleanupError"}
      [] op = "delete_helm_release" -> {"HelmUninstallError"}

\* The subclasses of exceptions.CleanupError.
CleanupErrors ==
    {"CleanupError", "ContextNotFoundError", "HelmUninstallError", "ValidationError"}

\* The exceptions the steps between validation and the first external call
\* can raise (SecretManager, os.makedirs, setup_logging).
SetupRaises == {"CleanupError", "ValueError"}

\* Validation passes whatever the arguments are.
MutValidateArgsPasses(valid) == None

\* validate_args: the exception it raises, if any.  Every validator reports a
\* failure by building ErrorContext(operation=..., details=...) without the
\* required timestamp, so what is raised is TypeError.
ValidateArgs(valid) == IF valid THEN None ELSE Some("TypeError")

\* Lines 304-316: the except clause that catches an exception of the class.
Handler(cls) ==
    IF cls = "ValidationError" THEN "validation"
    ELSE IF cls \in CleanupErrors THEN "cleanup"
    ELSE "unexpected"

\* The except CleanupError clause returns 0.
MutExitStatusCleanupZero(handler) == IF handler = "cleanup" THEN 0 ELSE 1

\* Lines 308, 313, 316: every except clause returns 1.
ExitStatus(handler) == 1

\* filter_old_pr_releases as main calls it: the processor gets batch_size
\* None, so the first release the filter accepts raises TypeError, and with no
\* such release the result is empty.
FilterOldPrReleasesCli(rels) ==
    LET bs == BatchProcessorInit(FilterOldPrReleasesKw(CliCallKw)).batch_size IN
    IF bs = None
    THEN IF \E k \in DOMAIN rels : FilterAccepts(rels[k])
         THEN Raises("TypeError")
         ELSE Returns(<<>>)
    ELSE Returns(ProcessBatchesResult(rels, bs[1], TRUE))

\* main has parsed its arguments and enters the try block.
InitMain ==
    /\ m_valid \in BOOLEAN
    /\ m_pc = "validate_args"
    /\ m_attempt = 0
    /\ m_last = None
    /\ m_releases = <<>>
    /\ m_old = <<>>
    /\ m_exit = None
    /\ m_events = <<>>
    /\ m_sleeps = 0
    /\ m_dry_run \in BOOLEAN
    /\ m_force \in BOOLEAN
    /\ m_targets = <<>>
    /\ m_answers = <<>>
    /\ m_deletes = <<>>
    /\ EngineUnused
    /\ RetryUnused
    /\ MonitorUnused
    /\ ReleaseFnsUnused

\* A call made by main and the exception it raised, if any.
Event(op, exc) == [op |-> op, raised |-> exc]

\* An exception reaches the except clauses of main, which returns.
Caught(cls) ==
    /\ m_pc' = "exit"
    /\ m_exit' = Some(ExitStatus(Handler(cls)))

\* The next wrapped call starts with no attempt made.
Enter(op) ==
    /\ m_pc' = op
    /\ m_attempt' = 0
    /\ m_last' = None

\* Line 243.
MainValidate ==
    /\ m_pc = "validate_args"
    /\ LET exc == ValidateArgs(m_valid) IN
        /\ m_events' = Append(m_events, Event("validate_args", exc))
        /\ IF exc = None
           THEN m_pc' = "setup" /\ UNCHANGED m_exit
           ELSE Caught(exc[1])
    /\ UNCHANGED <<engine, fn_pc, retry, monitor, releasefns, deletion,
                   m_valid, m_attempt, m_last, m_releases, m_old, m_sleeps>>

\* Lines 246-274: credentials and logging, then on to set_kubectl_context.
MainSetup ==
    /\ m_pc = "setup"
    /\ \E exc \in {None} \cup {Some(c) : c \in SetupRaises} :
        /\ m_events' = Append(m_events, Event("setup", exc))
        /\ IF exc = None
           THEN Enter("set_kubectl_context") /\ UNCHANGED m_exit
           ELSE Caught(exc[1]) /\ UNCHANGED <<m_attempt, m_last>>
    /\ UNCHANGED <<engine, fn_pc, retry, monitor, releasefns, deletion,
                   m_valid, m_releases, m_old, m_sleeps>>

\* Lines 291 and 298: the for loop goes on to the next release name.
Remaining(old) == Tail(old)

\* One attempt of the wrapped call main is in (lines 277, 280, 291, 298 with
\* exceptions.py lines 73-79): it returns and main goes on, or it raises and
\* the wrapper remembers the exception and sleeps if an attempt is left.
MainAttempt ==
    /\ m_pc \in ExternalOps
    /\ HasAttempt(m_attempt, ExternalMaxRetries)
    /\ \/ /\ m_events' = Append(m_events, Event(m_pc, None))
          /\ CASE m_pc = "set_kubectl_context" ->
                     /\ Enter("list_helm_releases")
                     /\ UNCHANGED <<m_releases, m_old, m_exit>>
               [] m_pc = "list_helm_releases" ->
                     /\ \E ks \in KindSeqs(ReleaseKinds) : m_releases' = MakeItems(ks)
                     /\ m_pc' = "filter_old_pr_releases"
                     /\ UNCHANGED <<m_attempt, m_last, m_old, m_exit>>
               [] m_pc = "delete_helm_release" ->
                     /\ m_old' = Remaining(m_old)
                     /\ IF Remaining(m_old) = <<>>
                        THEN /\ m_pc' = "exit"
                             /\ m_exit' = Some(0)
                             /\ UNCHANGED <<m_attempt, m_last>>
                        ELSE Enter("delete_helm_release") /\ UNCHANGED m_exit
                     /\ UNCHANGED m_releases
          /\ UNCHANGED m_sleeps
       \/ \E cls \in ExternalRaises(m_pc) :
          /\ m_events' = Append(m_events, Event(m_pc, Some(cls)))
          /\ m_last' = Remember(m_last, <<Len(m_events) + 1, cls>>)
          /\ m_attempt' = m_attempt + 1
          /\ m_sleeps' = m_sleeps + (IF SleepsAfter(m_attempt, ExternalMaxRetries) THEN 1 ELSE 0)
          /\ UNCHANGED <<m_pc, m_releases, m_old, m_exit>>
    /\ m_deletes' = IF m_pc = "delete_helm_release"
                    THEN Append(m_deletes, [name |-> Head(m_old), dry_run |-> m_dry_run,
                                            raised |-> m_events'[Len(m_events')].raised])
                    ELSE m_deletes
    /\ UNCHANGED <<engine, fn_pc, retry, monitor, releasefns, m_valid,
                   m_dry_run, m_force, m_targets, m_answers>>

\* exceptions.py line 80: no attempt is left, the wrapper raises the last
\* exception, which main catches.
MainExhausted ==
    /\ m_pc \in ExternalOps
    /\ ~HasAttempt(m_attempt, ExternalMaxRetries)
    /\ Caught(m_last[1][2])
    /\ UNCHANGED <<engine, fn_pc, retry, monitor, releasefns, deletion,
                   m_valid, m_attempt, m_last, m_releases, m_old, m_events, m_sleeps>>

\* Lines 281-285: the releases are filtered; with nothing to delete main
\* returns 0, otherwise it goes on to line 287 with the names.
MainFilter ==
    /\ m_pc = "filter_old_pr_releases"
    /\ LET out == FilterOldPrReleasesCli(m_releases) IN
        /\ m_events' = Append(m_events, Event("filter_old_pr_releases", out.raised))
        /\ IF out.raised # None
           THEN Caught(out.raised[1]) /\ UNCHANGED <<m_old, m_targets>>
           ELSE IF out.value[1] = <<>>
           THEN /\ m_pc' = "exit"
                /\ m_exit' = Some(0)
                /\ UNCHANGED <<m_old, m_targets>>
           ELSE /\ m_pc' = "handle_releases"
                /\ m_old' = out.value[1]
                /\ m_targets' = out.value[1]
                /\ UNCHANGED m_exit
    /\ UNCHANGED <<engine, fn_pc, retry, monitor, releasefns, m_valid, m_releases, m_sleeps,
                   m_attempt, m_last, m_dry_run, m_force, m_answers, m_deletes>>

NextMain ==
    \/ MainValidate
    \/ MainSetup
    \/ MainAttempt
    \/ MainExhausted
    \/ MainFilter

SpecMain == InitMain /\ [][NextMain]_vars

\* ------------------------------------------- cli.main, from line 287 onwards

\* Most answers typed at the prompt of one run.
MaxPrompts == 2

\* The release names filter_old_pr_releases can return.
ReleaseNames == {"pr-1", "pr-2"}
TargetLists == UNION {[1..n -> ReleaseNames] : n \in 1..MaxItems}

\* What the user can type at the prompt.
RawAnswers == {"y", "Y", "yes", "n", "No", "", "maybe"}

\* str.lower
Lower(str) ==
    CASE str = "Y" -> "y"
      [] str = "No" -> "no"
      [] OTHER -> str

\* An empty answer confirms.
MutDecideEmptyIsYes(response) ==
    IF response \in {"y", "yes", ""} THEN Some(TRUE)
    ELSE IF response \in {"n", "no"} THEN Some(FALSE)
    ELSE None

\* Lines 215-219: the answer confirms, cancels, or is asked for again.
Decide(response) ==
    IF response \in {"y", "yes"} THEN Some(TRUE)
    ELSE IF response \in {"n", "no", ""} THEN Some(FALSE)
    ELSE None

\* main is at line 287 with the names to delete.  (main itself gets here with
\* no list but the empty one, see DeleteUnreachable; the lists are those
\* filter_old_pr_releases returns when it is given a batch size.)
InitDeletePhase ==
    /\ m_valid = TRUE
    /\ m_pc = "handle_releases"
    /\ m_attempt = 0
    /\ m_last = None
    /\ m_releases = <<>>
    /\ m_targets \in TargetLists
    /\ m_old = m_targets
    /\ m_exit = None
    /\ m_events = <<>>
    /\ m_sleeps = 0
    /\ m_dry_run \in BOOLEAN
    /\ m_force \in BOOLEAN
    /\ m_answers = <<>>
    /\ m_deletes = <<>>
    /\ EngineUnused
    /\ RetryUnused
    /\ MonitorUnused
    /\ ReleaseFnsUnused

\* Lines 288-295 and 207-212: a dry run goes to its loop, --force confirms
\* without a prompt, otherwise the names are printed and the prompt follows.
MainHandle ==
    /\ m_pc = "handle_releases"
    /\ IF m_dry_run \/ m_force
       THEN Enter("delete_helm_release")
       ELSE m_pc' = "confirm_deletion" /\ UNCHANGED <<m_attempt, m_last>>
    /\ UNCHANGED <<engine, fn_pc, retry, monitor, releasefns, deletion,
                   m_valid, m_releases, m_old, m_exit, m_events, m_sleeps>>

\* Lines 214-220 and 295-302: one answer at the prompt, or the end of input.
MainPrompt ==
    /\ m_pc = "confirm_deletion"
    /\ Len(m_answers) < MaxPrompts
    /\ \/ \E raw \in RawAnswers :
            /\ m_answers' = Append(m_answers, raw)
            /\ LET decided == Decide(Lower(raw)) IN
               IF decided = None
               THEN UNCHANGED <<m_pc, m_attempt, m_last, m_exit>>
               ELSE IF decided[1]
               THEN Enter("delete_helm_release") /\ UNCHANGED m_exit
               ELSE /\ m_pc' = "exit"
                    /\ m_exit' = Some(0)
                    /\ UNCHANGED <<m_attempt, m_last>>
            /\ UNCHANGED m_events
       \/ /\ m_events' = Append(m_events, Event("input", Some("EOFError")))
          /\ Caught("EOFError")
          /\ UNCHANGED <<m_answers, m_attempt, m_last>>
    /\ UNCHANGED <<engine, fn_pc, retry, monitor, releasefns, m_valid, m_releases, m_old,
                   m_sleeps, m_dry_run, m_force, m_targets, m_deletes>>

NextDeletePhase ==
    \/ MainHandle
    \/ MainPrompt
    \/ MainAttempt
    \/ MainExhausted

SpecDeletePhase == InitDeletePhase /\ [][NextDeletePhase]_vars

\* ------------------------------------------------------------ claim helpers

\* The input items the filter lets through, in input order.
Filtered == SelectSeq(items, LAMBDA it : ~Skips(has_filter, it))

Returned == pc = "done"

\* The items of the dispatched batches, in dispatch order.
DispatchedItems == Flatten(dispatched)

\* The outputs the calling thread keeps for a sequence of items.
KeptOutputs(its) ==
    LET kept == SelectSeq(its, LAMBDA it : ~Transform(it).raised /\ Transform(it).value # None)
    IN [k \in DOMAIN kept |-> Transform(kept[k]).value[1]]

\* The index of the dispatched batch that holds the item with this id, 0 if none.
BatchOf(id) ==
    IF \E b \in DOMAIN dispatched : \E it \in Range(dispatched[b]) : it.id = id
    THEN CHOOSE b \in DOMAIN dispatched : \E it \in Range(dispatched[b]) : it.id = id
    ELSE 0

Remove(its, x) == SelectSeq(its, LAMBDA it : it # x)

\* ------------------------------------------------------------------- claims

\* C1: when process_batches returns, the dispatched batches hold exactly the
\* items that passed the filter, each once, in input order (so the last partial
\* batch is dispatched whatever the filter decided for the last item).
C1_EveryFilteredItemDispatched == Returned => DispatchedItems = Filtered

\* C2: the number of batches dispatched by one call is ceil(F / batchSize), F
\* the number of items that pass the filter.
C2_BatchCountIsCeil ==
    Returned => Len(dispatched) = CeilDiv(Len(Filtered), batch_size[1])

\* C3: every batch handed to _process_batch is non-empty and holds at most
\* batchSize items.
C3_BatchSizeBounded ==
    \A b \in DOMAIN dispatched :
        Len(dispatched[b]) >= 1 /\ Len(dispatched[b]) <= batch_size[1]

\* C3 witness: a call has returned after a full batch and a partial one.
C3_Witness ==
    /\ Returned
    /\ \E b \in DOMAIN dispatched : Len(dispatched[b]) = batch_size[1]
    /\ \E b \in DOMAIN dispatched : Len(dispatched[b]) < batch_size[1]

\* C4: a transform failure never leaves process_batches, the failing item adds
\* no result, and when the call returns every dispatched item (the other items
\* of the failing item's batch and those of later batches) was transformed
\* once and its kept output returned.
C4_TransformFailureIsolated ==
    /\ pc # "raised" /\ raised = ""
    /\ \A it \in Range(DispatchedItems) :
        Transform(it).raised => it.id \notin Range(processed_items) \cup Range(results)
    /\ Returned =>
        \A it \in Range(DispatchedItems) :
            /\ Cardinality({k \in DOMAIN transform_calls : transform_calls[k] = it.id}) = 1
            /\ it.id \in Range(KeptOutputs(<<it>>)) => it.id \in Range(processed_items)

\* C4 witness: a call has returned in which a transform failed in a batch that
\* also held a successful item, and a later batch produced a result.
C4_Witness ==
    /\ Returned
    /\ \E b \in DOMAIN dispatched :
        /\ \E x, y \in Range(dispatched[b]) :
            x.kind = "fail" /\ y.kind = "ok" /\ y.id \in Range(processed_items)
        /\ \E c \in DOMAIN dispatched :
            /\ c > b
            /\ \E z \in Range(dispatched[c]) : z.kind = "ok" /\ z.id \in Range(processed_items)

\* C5: if transform fails for item x, the call returns the same multiset of
\* results as a call on the input with x removed.
C5_FailureEqualsRemoval ==
    Returned =>
        \A x \in Range(items) :
            x.kind = "fail" =>
                BagOfSeq(processed_items)
                    = BagOfSeq(ProcessBatchesResult(Remove(items, x), batch_size[1], has_filter))

\* C6: the returned list is the concatenation, in dispatch order, of the kept
\* (returned, non-None) outputs of the dispatched items: nothing is dropped or
\* duplicated, results of an earlier batch precede those of a later one, and
\* the list is no longer than the input.
C6_ResultIsConcatenation ==
    Returned =>
        /\ BagOfSeq(processed_items) = BagOfSeq(KeptOutputs(DispatchedItems))
        /\ \A p, q \in DOMAIN processed_items :
            p < q => BatchOf(processed_items[p]) <= BatchOf(processed_items[q])
        /\ \A p \in DOMAIN processed_items :
            \E it \in Range(items) : Transform(it) = [raised |-> FALSE,
                                                      value |-> Some(processed_items[p])]
        /\ Len(processed_items) <= Len(items)

\* C6 witness: a call has returned results of two batches, having dispatched
\* an item whose transform returned None and one whose transform raised.
C6_Witness ==
    /\ Returned
    /\ \E p, q \in DOMAIN processed_items : BatchOf(processed_items[p]) < BatchOf(processed_items[q])
    /\ \E it \in Range(DispatchedItems) : it.kind \in {"none", "fail"}

\* C7: with a progress callback, it has been invoked once per completed batch
\* and not yet for the batch in progress, the k-th time with (the number of
\* input items consumed when batch k was dispatched, the total); without a
\* filter that is (min(k * batchSize, n), n).
C7_ProgressPerBatch ==
    has_callback =>
        /\ Len(progress_calls) = Len(dispatched) - (IF pc = "batch" THEN 1 ELSE 0)
        /\ \A k \in DOMAIN progress_calls :
            /\ progress_calls[k] = <<dispatched[k][Len(dispatched[k])].id, total_items>>
            /\ ~has_filter =>
                progress_calls[k] = <<Min(k * batch_size[1], total_items), total_items>>

\* C7 witness: without a filter, the callback has been invoked for a full
\* batch and then for the final partial batch.
C7_Witness ==
    /\ has_callback /\ ~has_filter /\ Returned
    /\ Len(progress_calls) >= 2
    /\ Len(progress_calls) * batch_size[1] > total_items

\* C8: on an empty input nothing is dispatched, transform, filter and the
\* progress callback are never invoked, and the call returns the empty list
\* having logged exactly the start and the completion entry.
C8_EmptyInput ==
    items = <<>> =>
        /\ dispatched = <<>> /\ transform_calls = <<>>
        /\ filter_calls = <<>> /\ progress_calls = <<>>
        /\ pc \in {"start", "loop", "done"}
        /\ Returned =>
            /\ processed_items = <<>>
            /\ log = <<<<"start", 0>>, <<"completed", 0>>>>

\* C8 witness: a call with a filter and a callback on the empty input returned.
C8_Witness == items = <<>> /\ Returned /\ has_filter /\ has_callback

\* C9: a processor built without batch_size and max_workers runs with batch
\* size 100 and 4 workers, also the one filter_old_pr_releases builds when it
\* is called without them (as cli.main calls it), and that call completes
\* normally.
C9_DefaultsWhenUnspecified ==
    (DOMAIN call_kw = {} /\ (pc \in {"done", "raised"} \/ fn_pc \in {"returned", "raised"})) =>
        /\ batch_size = Some(DEFAULT_BATCH_SIZE)
        /\ max_workers = Some(DEFAULT_MAX_WORKERS)
        /\ pc # "raised"
        /\ fn_pc # "raised"

\* The first half of C9, for a processor built directly as BatchProcessor().
DirectDefaults ==
    (caller = "direct" /\ DOMAIN call_kw = {}) =>
        batch_size = Some(DEFAULT_BATCH_SIZE) /\ max_workers = Some(DEFAULT_MAX_WORKERS)

\* The call of cli.main ends in TypeError as soon as one release passes the filter.
CliCallRaises ==
    (call_kw = CliCallKw /\ fn_pc \in {"returned", "raised"}) =>
        (fn_pc = "raised" <=> Filtered # <<>>)

\* C10: with max_retries >= 0 the wrapper invokes the function at most
\* max_retries times and no more after a success; it returns exactly when the
\* last invocation succeeded, with that invocation's value (k failures and a
\* success are k + 1 invocations), and it raises only after max_retries
\* invocations that all failed.
C10_RetryInvocations ==
    r_max >= 0 =>
        /\ Len(r_calls) <= r_max
        /\ \A k \in DOMAIN r_calls : r_calls[k].ok => k = Len(r_calls)
        /\ (r_calls # <<>> /\ r_calls[Len(r_calls)].ok) =>
            /\ r_pc = "returned"
            /\ r_result = Some(<<Len(r_calls), r_calls[Len(r_calls)].what>>)
        /\ r_pc = "returned" => r_calls # <<>> /\ r_calls[Len(r_calls)].ok
        /\ r_pc = "raised" =>
            /\ Len(r_calls) = r_max
            /\ \A k \in DOMAIN r_calls : ~r_calls[k].ok

\* C10 witness: with max_retries = 3 the function failed twice, succeeded the
\* third time and the wrapper returned.
C10_Witness ==
    /\ r_max = 3
    /\ r_pc = "returned"
    /\ Len(r_calls) = 3
    /\ ~r_calls[1].ok /\ ~r_calls[2].ok /\ r_calls[3].ok

\* With max_retries = 3 a function that always fails was invoked three times
\* before the wrapper raised.
RetryExhausted == r_max = 3 /\ r_pc = "raised" /\ Len(r_calls) = 3

\* C11: when every attempt of a call with max_retries >= 1 failed, the
\* exception the wrapper raises is the one the last invocation raised.
C11_RaisesLastFailure ==
    (r_pc = "raised" /\ r_max >= 1) =>
        /\ r_calls # <<>>
        /\ r_raised = Some(<<Len(r_calls), r_calls[Len(r_calls)].what>>)

\* C11 witness: three attempts failed, the last with another class than the
\* first two, and the wrapper raised.
C11_Witness ==
    /\ r_pc = "raised" /\ r_max = 3 /\ Len(r_calls) = 3
    /\ r_calls[1].what = "E1" /\ r_calls[2].what = "E1" /\ r_calls[3].what = "E2"

\* C12: in a call with max_retries >= 1 the delay is waited once after each
\* failed attempt that is followed by another attempt and at no other time:
\* j - 1 times when attempt j succeeds, max_retries - 1 times when all fail.
C12_SleepsBetweenAttempts ==
    r_max >= 1 =>
        /\ \A k \in DOMAIN r_sleeps : r_sleeps[k] = k - 1 /\ ~r_calls[k].ok
        /\ r_pc = "loop" => Len(r_sleeps) = Min(r_attempt, r_max - 1)
        /\ r_pc = "sleep" => Len(r_sleeps) = Len(r_calls) - 1
        /\ r_pc = "returned" => Len(r_sleeps) = Len(r_calls) - 1
        /\ r_pc = "raised" => Len(r_sleeps) = r_max - 1

\* C12 witness: all three attempts failed and the wrapper raised after two waits.
C12_Witness == r_pc = "raised" /\ r_max = 3 /\ Len(r_calls) = 3 /\ Len(r_sleeps) = 2

\* A call returned on its third attempt after two waits.
ReturnedAfterTwoSleeps == r_pc = "returned" /\ Len(r_calls) = 3 /\ Len(r_sleeps) = 2

\* The last call made on the tracker, and whether one was made in this step.
LastMonCall == mon_calls[Len(mon_calls)]
MonCalled(method, open) ==
    /\ Len(mon_calls') = Len(mon_calls) + 1
    /\ mon_calls'[Len(mon_calls')].method = method
    /\ mon_calls'[Len(mon_calls')].open = open

\* C13: a start_operation made while a record is open leaves that record open
\* and unreplaced, leaves the log alone, logs a warning and raises nothing.
C13_StrayStartKeepsOpenRecord ==
    [][MonCalled("start", TRUE) =>
          /\ current_operation' = current_operation
          /\ operations' = operations
          /\ \E k \in DOMAIN mon_log' : k > Len(mon_log) /\ mon_log'[k][1] = "warning"
          /\ mon_calls'[Len(mon_calls')].raised = None]_vars

\* A record that was opened is neither open nor in the log.
RecordLost ==
    \E oid \in 1..created :
        /\ \A k \in DOMAIN operations : operations[k].oid # oid
        /\ current_operation = None \/ current_operation[1].oid # oid

\* C14: at most one record is open; an end_operation made while a record is
\* open appends that record, with the success flag and the error passed, to the
\* end of the log and clears the slot; every other call leaves the log as it
\* was, and no record is in the log twice.
C14_LogAppendOnly ==
    [][/\ Len(current_operation') <= 1
       /\ IF MonCalled("end", TRUE)
          THEN LET rec == operations'[Len(operations')]
                   cur == current_operation[1]
                   args == mon_calls'[Len(mon_calls')].args
               IN /\ operations' = Append(operations, rec)
                  /\ rec.oid = cur.oid
                  /\ rec.operation = cur.operation
                  /\ rec.start_time = cur.start_time
                  /\ rec.success = args.success
                  /\ rec.error = args.error
                  /\ rec.duration = Some(clock' - cur.start_time)
                  /\ \A key \in DOMAIN args.details : rec.details[key] = args.details[key]
                  /\ \A key \in DOMAIN cur.details \ DOMAIN args.details :
                         rec.details[key] = cur.details[key]
                  /\ current_operation' = None
          ELSE operations' = operations
       /\ \A j, k \in DOMAIN operations' :
              operations'[j].oid = operations'[k].oid => j = k]_vars

\* Two records were finalized, the second with merged details, and none is open.
C14_Witness ==
    /\ Len(operations) = 2
    /\ current_operation = None
    /\ operations[1].success /\ ~operations[2].success
    /\ operations[1].details = [count |-> 1]

\* C15: an end_operation made while no record is open leaves the log and the
\* slot as they were, logs the warning and raises nothing.
C15_EndWithoutStartIsNoOp ==
    [][MonCalled("end", FALSE) =>
          /\ operations' = operations
          /\ current_operation' = current_operation
          /\ mon_log' = Append(mon_log, <<"warning", "No operation in progress">>)
          /\ mon_calls'[Len(mon_calls')].raised = None]_vars

\* A stray end_operation was made on a tracker whose log holds a record.
C15_Witness ==
    /\ mon_calls # <<>>
    /\ LastMonCall.method = "end" /\ ~LastMonCall.open
    /\ Len(operations) = 1
    /\ mon_log[Len(mon_log)] = <<"warning", "No operation in progress">>

\* One successful record of 2 s followed by one failed record of 1 s.
TwoAndOne ==
    /\ Len(operations) = 2
    /\ operations[1].success /\ operations[1].duration = Some(2)
    /\ ~operations[2].success /\ operations[2].duration = Some(1)

\* C16: the summary counts the finalized records, successful + failed is that
\* count, total_duration is the sum of the durations, average_duration is
\* total_duration / count, the records come in the order they were finalized,
\* and an empty log gives an empty aggregate; a successful 2 s record and a
\* failed 1 s record give total 2, successful 1, failed 1, average 1.5.
C16_SummaryAggregates ==
    (mon_calls # <<>> /\ LastMonCall.method = "summary") =>
        IF operations = <<>> THEN summary = EmptyDict
        ELSE /\ summary.total_operations = Len(operations)
             /\ summary.successful_operations + summary.failed_operations = Len(operations)
             /\ summary.successful_operations =
                    Cardinality({k \in DOMAIN operations : operations[k].success})
             /\ summary.total_duration =
                    SeqSum([k \in DOMAIN operations |-> operations[k].duration[1]])
             /\ summary.average_duration.num * Len(operations) =
                    summary.total_duration * summary.average_duration.den
             /\ summary.average_duration.den # 0
             /\ DOMAIN summary.operations = DOMAIN operations
             /\ \A k \in DOMAIN operations :
                    /\ summary.operations[k].operation = operations[k].operation
                    /\ summary.operations[k].duration = operations[k].duration
                    /\ summary.operations[k].success = operations[k].success
                    /\ summary.operations[k].error = operations[k].error
                    /\ summary.operations[k].details = operations[k].details
             /\ TwoAndOne =>
                    /\ summary.total_operations = 2
                    /\ summary.successful_operations = 1
                    /\ summary.failed_operations = 1
                    /\ summary.average_duration.num * 2 = 3 * summary.average_duration.den

\* The summary of the 2 s success and the 1 s failure was taken.
C16_Witness ==
    /\ mon_calls # <<>>
    /\ LastMonCall.method = "summary"
    /\ TwoAndOne
    /\ summary # EmptyDict

\* The summary of a tracker with no finalized record was taken.
SummaryOfEmptyLog ==
    mon_calls # <<>> /\ LastMonCall.method = "summary" /\ operations = <<>>

\* The hour in UTC shown by the "updated" field of the release, a timestamp
\* without an offset being taken as UTC, and the hour in UTC of the cutoff.
UpdatedUtcHour ==
    rel_release.updated.hour
        - (IF rel_release.updated.tz = None THEN 0 ELSE rel_release.updated.tz[1])
CutoffUtcHour == rel_cutoff.hour - rel_cutoff.tzinfo[1]

\* C17: for a release with a string name or none, filter_release_by_age
\* raises nothing and returns true exactly when the name is non-empty, the
\* timestamp parses, the name starts with the prefix and the timestamp in UTC
\* is strictly earlier than the cutoff.
C17_FilterReleaseByAge ==
    (rel_filter # None /\ rel_release.dict /\ rel_release.name.type \in {"missing", "str"}) =>
        /\ rel_filter[1].raised = None
        /\ rel_filter[1].value \in {Some(TRUE), Some(FALSE)}
        /\ rel_filter[1].value = Some(TRUE) <=>
               /\ rel_release.name.type = "str" /\ rel_release.name.chars # <<>>
               /\ rel_release.updated.type = "str" /\ rel_release.updated.form = "iso"
               /\ StartsWith(rel_release.name.chars, rel_prefix)
               /\ UpdatedUtcHour < CutoffUtcHour

\* True was returned for a timestamp that shows the hour the cutoff shows and
\* is earlier only once both are brought to UTC.
C17_Witness ==
    /\ rel_filter = Some(Returns(TRUE))
    /\ rel_release.updated.tz = Some(1)
    /\ rel_cutoff.tzinfo = Some(0)
    /\ rel_release.updated.hour = rel_cutoff.hour
    /\ rel_prefix # <<>>

\* False was returned for a matching name whose timestamp is the cutoff.
EqualToCutoffGivesFalse ==
    /\ rel_filter = Some(Returns(FALSE))
    /\ rel_release.name.type = "str" /\ rel_release.name.chars # <<>>
    /\ StartsWith(rel_release.name.chars, rel_prefix)
    /\ rel_release.updated.form = "iso"
    /\ UpdatedUtcHour = CutoffUtcHour

\* True was returned for a timestamp without an offset.
NaiveTakenAsUtc ==
    rel_filter = Some(Returns(TRUE)) /\ rel_release.updated.tz = None

\* The filter raised: the release is no dict, or its name is no string.
FilterRaised == rel_filter # None /\ rel_filter[1].raised # None

\* C18: process_release raises nothing; it returns the name when the release
\* has one that is not empty and None otherwise, a failure to read the name
\* included, which is logged as an error.
C18_ProcessRelease ==
    rel_process # None =>
        /\ rel_process[1].raised = None
        /\ rel_process[1].value =
               IF /\ rel_release.dict
                  /\ rel_release.name.type # "missing"
                  /\ ~(rel_release.name.type = "str" /\ rel_release.name.chars = <<>>)
               THEN Some(rel_release.name)
               ELSE None
        /\ ~rel_release.dict => rel_log = <<<<"error", "Error processing release">>>>

\* Reading the name failed and None was returned.
C18_Witness ==
    /\ ~rel_release.dict
    /\ rel_process = Some([raised |-> None, value |-> None])
    /\ rel_log # <<>>

\* A name was returned.
NameReturned ==
    /\ rel_process # None
    /\ rel_process[1].value = Some(NameStr(<<"p", "x">>))

\* The calls of main made so far that are calls of the given functions.
EventsOf(ops) == SelectSeq(m_events, LAMBDA e : e.op \in ops)

\* C19: validate_args runs once, before anything else; when the arguments are
\* invalid, main returns 1 right after it and no external operation is invoked.
C19_ValidationFailureNotRetried ==
    /\ Len(EventsOf({"validate_args"})) <= 1
    /\ m_events # <<>> => m_events[1].op = "validate_args"
    /\ (~m_valid /\ m_events # <<>>) =>
           /\ m_pc = "exit"
           /\ m_exit = Some(1)
           /\ Len(m_events) = 1
           /\ m_events[1].raised # None
           /\ EventsOf(ExternalOps) = <<>>
           /\ m_sleeps = 0

\* main returned 1 for invalid arguments.
C19_Witness ==
    /\ ~m_valid
    /\ m_exit = Some(1)
    /\ m_events = <<Event("validate_args", Some("TypeError"))>>

\* From call k on, main made ExternalMaxRetries failed attempts in a row of
\* one external operation: the failure persisted through all its attempts.
PersistentFailureAt(k) ==
    /\ k + ExternalMaxRetries - 1 <= Len(m_events)
    /\ \A j \in k..(k + ExternalMaxRetries - 1) :
           /\ m_events[j].op \in ExternalOps
           /\ m_events[j].op = m_events[k].op
           /\ m_events[j].raised # None

PersistentFailure == \E k \in DOMAIN m_events : PersistentFailureAt(k)

MainSucceeded == m_exit = Some(0) /\ Len(m_releases) = MaxItems

\* main never gets to delete a release: filter_old_pr_releases returns an
\* empty list or raises.
DeleteUnreachable ==
    m_pc \notin {"handle_releases", "confirm_deletion", "delete_helm_release"}

\* filter_old_pr_releases, called as main calls it, ends as the function of
\* its releases says.
CliOutcomeMatchesFunction ==
    (call_kw = CliCallKw /\ fn_pc \in {"returned", "raised"}) =>
        LET out == FilterOldPrReleasesCli(items) IN
        /\ fn_pc = "raised" => out.raised = Some(raised)
        /\ fn_pc = "returned" => out.raised = None /\ out.value = Some(processed_items)

\* The attempts of delete_helm_release that returned, among the first n.
Deleted(n) == {j \in 1..n : m_deletes[j].raised = None}

\* The attempts made for the k-th name: those made after k - 1 deletions.
AttemptsFor(k) == {j \in DOMAIN m_deletes : Cardinality(Deleted(j - 1)) = k - 1}

\* Deletion was confirmed: no dry run, and --force or a y / yes at the prompt.
DeletionConfirmed ==
    /\ ~m_dry_run
    /\ \/ m_force
       \/ m_answers # <<>> /\ Lower(m_answers[Len(m_answers)]) \in {"y", "yes"}

\* The releases main listed that the filter accepts, by id, in list order.
Survivors ==
    LET acc == SelectSeq(m_releases, FilterAccepts) IN [k \in DOMAIN acc |-> acc[k].id]

\* The names of the attempts of delete_helm_release that returned, in order.
DeletedNames ==
    LET done == SelectSeq(m_deletes, LAMBDA d : d.raised = None)
    IN [k \in DOMAIN done |-> done[k].name]

DeleteLoopOncePerName ==
    /\ \A j \in DOMAIN m_deletes :
           /\ Cardinality(Deleted(j - 1)) < Len(m_targets)
           /\ m_deletes[j].name = m_targets[Cardinality(Deleted(j - 1)) + 1]
    /\ \A k \in DOMAIN m_targets : Cardinality(AttemptsFor(k)) <= ExternalMaxRetries
    /\ (m_exit = Some(0) /\ DeletionConfirmed) =>
           /\ Cardinality(Deleted(Len(m_deletes))) = Len(m_targets)
           /\ m_deletes[Len(m_deletes)].raised = None
           /\ \A j \in DOMAIN m_deletes : ~m_deletes[j].dry_run

\* Two different names were deleted after a yes at the prompt, one of them at
\* its second attempt.
DeleteLoopRan ==
    /\ m_exit = Some(0)
    /\ DeletionConfirmed /\ ~m_force
    /\ m_targets = <<"pr-2", "pr-1">>
    /\ Len(m_deletes) = 3

\* C22: a real uninstall is attempted only when dry-run is off and --force
\* was given or the last answer was y or yes; a dry run prompts for nothing
\* and attempts dry-run uninstalls only; after n, no or an empty answer main
\* has returned 0 with no attempt made; after any other answer the prompt is
\* still open with no attempt made.
C22_NoDeletionWithoutConsent ==
    /\ \A j \in DOMAIN m_deletes : ~m_deletes[j].dry_run => DeletionConfirmed
    /\ m_dry_run => m_answers = <<>> /\ \A j \in DOMAIN m_deletes : m_deletes[j].dry_run
    /\ m_answers # <<>> =>
           LET response == Lower(m_answers[Len(m_answers)]) IN
           /\ response \in {"n", "no", ""} =>
                  m_deletes = <<>> /\ m_pc = "exit" /\ m_exit = Some(0)
           /\ response \notin {"y", "yes", "n", "no", ""} =>
                  /\ m_deletes = <<>>
                  /\ \/ m_pc = "confirm_deletion" /\ m_exit = None
                     \/ m_pc = "exit" /\ m_exit = Some(1)
                           /\ m_events[Len(m_events)] = Event("input", Some("EOFError"))
           /\ \A k \in 1..(Len(m_answers) - 1) :
                  Lower(m_answers[k]) \notin {"y", "yes", "n", "no", ""}

\* The user was asked again and then declined.
C22_Witness ==
    /\ m_answers = <<"maybe", "No">>
    /\ m_exit = Some(0)
    /\ m_deletes = <<>>
    /\ Len(m_targets) = 2

\* A dry run attempted its uninstalls.
DryRunDeleted ==
    m_dry_run /\ m_exit = Some(0) /\ Len(m_deletes) = 2 /\ m_deletes[1].dry_run

\* A real uninstall was attempted after --force.
ForcedDelete == m_force /\ ~m_dry_run /\ m_deletes # <<>> /\ ~m_deletes[1].dry_run

\* C23: a transform invocation runs only while its batch is the one being
\* processed, so every invocation of a batch has ended before an invocation
\* of the next batch starts.
C23_BatchesSequential ==
    /\ \A id \in in_flight : pc = "batch" /\ BatchOf(id) = Len(dispatched)
    /\ pc # "batch" => in_flight = {}

\* The invocation of the second batch runs after both of the first ended.
C23_Witness ==
    /\ Len(dispatched) = 2
    /\ Len(dispatched[1]) = 2
    /\ in_flight = {dispatched[2][1].id}
    /\ Len(transform_calls) = 3

\* C24: the number of transform invocations in flight is at most
\* min(max_workers, size of the current batch).
C24_InFlightBounded ==
    Cardinality(in_flight) <= Min(max_workers[1], Len(current_batch))

\* Every worker of the pool is busy and an item of the batch waits.
C24_Witness ==
    /\ pc = "batch"
    /\ Cardinality(in_flight) = max_workers[1]
    /\ max_workers[1] < Len(current_batch)
    /\ \E k \in DOMAIN futures : futures[k] = "pending"

\* C27: process_batches returns, and when it has returned no transform
\* invocation is running and every future of every batch was taken.
C27_Terminates ==
    /\ <>(pc = "done")
    /\ [](pc = "done" => in_flight = {} /\ futures = <<>> /\ i = total_items)

\* process_batches returned after two batches, one of them of two items.
C27_Witness ==
    /\ pc = "done"
    /\ Len(dispatched) = 2
    /\ Len(transform_calls) = 3
    /\ in_flight = {}

\* The number of transform invocations made on the item.
TransformCount(it) == Cardinality({k \in DOMAIN transform_calls : transform_calls[k] = it.id})

\* The filter was called once on each item visited so far, in input order,
\* every item in a batch went through it first, and no rejected item was
\* handed to transform.
FilterDiscipline ==
    /\ has_filter => filter_calls = [k \in 1..i |-> k]
    /\ ~has_filter => filter_calls = <<>>
    /\ \A it \in Range(current_batch) \cup Range(DispatchedItems) :
           /\ has_filter => it.id \in Range(filter_calls)
           /\ ~Skips(has_filter, it)
    /\ \A it \in Range(items) : Skips(has_filter, it) => TransformCount(it) = 0
    /\ \A it \in Range(items) : TransformCount(it) <= 1

TransformOncePerDispatched ==
    /\ FilterDiscipline
    /\ Returned => \A it \in Range(DispatchedItems) : TransformCount(it) = 1

\* The items of the batch in progress whose future the calling thread has taken.
CollectedItems ==
    SelectSeq(current_batch,
              LAMBDA it : \E k \in DOMAIN futures : current_batch[k] = it /\ futures[k] = "collected")

\* One step of the calling thread that takes the result of a completed future
\* and appends it to the batch's results if it is kept.
AppendsCollected ==
    \E k \in DOMAIN futures :
        /\ futures[k] = "finished"
        /\ futures' = [futures EXCEPT ![k] = "collected"]
        /\ results' = results \o KeptOutputs(<<current_batch[k]>>)

\* A step changes the batch's result list only by the calling thread
\* appending the output of a completed future (or emptying it when the
\* drained batch returns), changes the accumulated list only by extending it
\* with the results of a drained batch, and changes neither when it starts or
\* ends a worker.
OnlyCallerAppends ==
    /\ (results' # results) =>
          (\/ AppendsCollected
           \/ Drained(futures) /\ in_flight = {} /\ results' = <<>>)
    /\ (processed_items' # processed_items) =>
          (/\ Drained(futures) /\ in_flight = {}
           /\ processed_items' = processed_items \o results)
    /\ (in_flight' # in_flight) =>
          (results' = results /\ processed_items' = processed_items)

\* C26: the batch's result list holds exactly the kept outputs of the items
\* whose future the calling thread has taken, each once (none lost, none
\* duplicated), and every step is one in which only the calling thread writes
\* to the result lists, after the worker of the item has completed.
C26_CollectThenAppend ==
    /\ [](BagOfSeq(results) = BagOfSeq(KeptOutputs(CollectedItems)))
    /\ [][OnlyCallerAppends]_vars

\* C26 witness: the result of the second item of a batch has been collected
\* and appended while the worker of the first item is still running.
C26_Witness ==
    /\ pc = "batch"
    /\ Len(current_batch) = 2
    /\ futures = <<"running", "collected">>
    /\ results = <<current_batch[2].id>>
    /\ in_flight = {current_batch[1].id}

\* C28: a filter that raises on an item does not abort the run: no exception
\* leaves process_batches, and a call that has visited every item returns
\* with the results of the items dispatched, none of them an item the filter
\* raised on.
C28_FilterFailureIsolated ==
    /\ pc # "raised"
    /\ Returned =>
        /\ i = total_items
        /\ \A it \in Range(DispatchedItems) : it.kind # BadKind
        /\ BagOfSeq(processed_items) = BagOfSeq(KeptOutputs(DispatchedItems))

\* The filter raised on the second of three items after the first item's
\* batch was processed: the call ended by that exception, the third item was
\* never looked at and the first item's result is not returned.
FilterAborted ==
    /\ pc = "raised"
    /\ Len(items) = 3
    /\ filter_calls = <<1, 2>>
    /\ processed_items = <<1>>

\* filter_old_pr_releases has exited, by return or by exception.
FilterExited == fn_pc \in {"returned", "raised"}

\* C29: when filter_old_pr_releases has exited, by return or by exception, the
\* global monitor has no open operation and this execution has appended
\* exactly one record to its log, with success false exactly when the
\* execution raised.
C29_MonitorClosedOnExit ==
    FilterExited =>
        /\ current_operation = None
        /\ Len(operations) = 1
        /\ operations[1].operation = "filter_old_pr_releases"
        /\ operations[1].success = (fn_pc = "returned")

\* On a return the operation is closed and its one record tells a success.
MonitorClosedOnReturn ==
    fn_pc = "returned" =>
        /\ current_operation = None
        /\ Len(operations) = 1
        /\ operations[1].success

\* The call made by cli.main has ended by an exception with its operation
\* still open on the global monitor and no record appended.
OperationLeftOpen ==
    /\ fn_pc = "raised"
    /\ call_kw = CliCallKw
    /\ current_operation # None
    /\ operations = <<>>

\* C30: for every max_retries, zero and negative included, a call that has
\* ended has invoked the function at least once and either returned the value
\* an invocation returned or raised the exception an invocation raised.
C30_OutcomeComesFromOperation ==
    /\ r_pc \in {"returned", "raised"} => r_calls # <<>>
    /\ r_pc = "returned" =>
        \E k \in DOMAIN r_calls : r_calls[k].ok /\ r_result = Some(<<k, r_calls[k].what>>)
    /\ r_pc = "raised" =>
        \E k \in DOMAIN r_calls : ~r_calls[k].ok /\ r_raised = Some(<<k, r_calls[k].what>>)

\* With a positive max_retries the outcome of a call is an outcome of one of
\* its invocations.
OutcomeComesFromOperationWhenPositive == r_max >= 1 => C30_OutcomeComesFromOperation

\* A call with max_retries = 0 has raised a TypeError without one invocation.
RaisedWithoutInvoking ==
    /\ r_max = 0
    /\ r_pc = "raised"
    /\ r_calls = <<>>
    /\ r_raised = Some(<<0, "TypeError">>)

\* The batches of a run are those of the loop run as a function.
DispatchMatchesFunction ==
    Returned => dispatched = DispatchedBatches(items, batch_size[1], has_filter)

====
